---- MODULE Spec2Model ----
(***************************************************************************)
(* Model of src/src/gp.c: the periodic task gp_tick (digital outputs, PWM  *)
(* publication, ADC ring-buffer drain and averaging, PDCA re-arm) and the  *)
(* pin-change interrupt handler gp_pwm_input_interrupt_handler, which      *)
(* decodes pulse widths in gp_pwm_check_inputs.  The PDCA/ADCIFA hardware, *)
(* the input pins and the COUNT register are the environment.              *)
(***************************************************************************)
EXTENDS Integers, Sequences, FiniteSets, TLC

(* ---- program constants (gp.c:31-35) ---- *)
GP_NUM_INPUTS == 4
GP_NUM_OUTPUTS == 4
GP_NUM_ADCS == 4
GP_ADC_OVERSAMPLE_RATE == 16
GP_ADC_BUF_SIZE == GP_NUM_ADCS * GP_ADC_OVERSAMPLE_RATE * 2 * 2

(* thresholds of the pulse-width mapping (gp.c:311, 313) *)
T_low == 42829
T_high == 108264

(* clamp limit of a sample (gp.c:247-248) and the limits asserted at       *)
(* gp.c:242 and gp.c:265                                                   *)
SAMPLE_MAX == 2047
COUNT_ASSERT_MAX == 64
AVG_ASSERT_MAX == 32768

(* widths of the C integer types used *)
U8 == 256
U16 == 65536

(* ---- bounds of the exploration ---- *)
MaxTicks == 4
MaxBursts == 3
MaxEdges == 3
MaxAdvances == 3
MaxJoint == 3
MaxJointTicks == 2

Channels == 0 .. (GP_NUM_ADCS - 1)
Inputs == 0 .. (GP_NUM_INPUTS - 1)
Outputs == 0 .. (GP_NUM_OUTPUTS - 1)
Slots == 0 .. (GP_ADC_BUF_SIZE - 1)

(* the value 1u << i and the test  x & (1u << i) *)
Pow2(i) == 2 ^ i
Bit(x, i) == (x \div Pow2(i)) % 2

(* A uint32_t that can pass 2^31 (COUNT, the timestamps, delta) is kept as
   two 16-bit halves, value = hi * 2^16 + lo; a true duration, which has no
   width, is the same with hi unbounded. *)
Big(hi, lo) == [hi |-> hi, lo |-> lo]
ToBig(n) == Big(n \div U16, n % U16)
BigAdd(a, b) == Big(a.hi + b.hi + ((a.lo + b.lo) \div U16), (a.lo + b.lo) % U16)
BigLe(a, b) == a.hi < b.hi \/ (a.hi = b.hi /\ a.lo <= b.lo)
(* truncation to 32 bits, and the number of times 2^32 was passed *)
Wrap32(a) == Big(a.hi % U16, a.lo)
Carry32(a) == a.hi \div U16
(* a - b in uint32_t *)
Sub32(a, b) ==
    Big((a.hi - b.hi + ((a.lo - b.lo) \div U16)) % U16, (a.lo - b.lo) % U16)

(* variant: the levels combined with | instead of ^ *)
Xor4_Or(a, b) ==
    LET d(i) == IF Bit(a, i) = 1 \/ Bit(b, i) = 1 THEN Pow2(i) ELSE 0
    IN  d(0) + d(1) + d(2) + d(3)

(* cur_state ^ gp_pwm_input_state on the four input bits (gp.c:296) *)
Xor4(a, b) ==
    LET d(i) == IF Bit(a, i) # Bit(b, i) THEN Pow2(i) ELSE 0
    IN  d(0) + d(1) + d(2) + d(3)

(* ---- environment choices ---- *)
(* raw conversion results the ADC may deliver, one per channel per burst *)
Patterns ==
    { <<2047, 5, 2046, 0>>,
      <<-32768, 32767, -1, 2048>> }
(* numbers of samples the PDCA stores in one burst *)
BurstSizes == {1, 32, 223, 225, 256}
(* output commands delivered by comms_get_gpout *)
Commands == {0, 5, 21}
(* numbers of COUNT cycles that pass at once *)
Deltas == {ToBig(1), ToBig(T_low), ToBig(T_high - 1), Big(U16 - 1, U16 - 1)}

VARIABLES
    pc,                        \* position of gp_tick
    gp_adc_samples,            \* gp.c:49
    gp_adc_last_sample_idx,    \* gp.c:50
    last_gpio,                 \* gp.c:173
    samples_read,              \* gp.c:198
    samples_avail,             \* gp.c:199
    adc_totals,                \* gp.c:187
    adc_sample_count,          \* gp.c:188
    flags,                     \* gp.c:223
    gp_pwm_input_state,        \* gp.c:55
    gp_pwm_input_state_begin,  \* gp.c:56
    gp_pwm_input_values,       \* gp.c:57
    pdca,                      \* PDCA channel registers: tcr, mar, tcrr, marr, ten
    adc_on,                    \* ADCIFA enabled
    irq_on,                    \* global interrupt enable of the CPU
    irq_pending,               \* pin-change interrupt flag raised
    in_pins,                   \* levels of the input pins
    out_pins,                  \* levels of the output pins
    COUNT,                     \* AVR32_COUNT system register
    comms_adc,                 \* values given to comms_set_pitot/iv/range
    comms_pwm,                 \* values given to comms_set_pwm_values
    comms_gpin,                \* value given to comms_set_gpin_state
    comms_gpout,               \* value comms_get_gpout returned in this tick
    cycle,                     \* history of the current gp_tick; steady: every
                               \* interval since a re-arm stored 1..223 samples
    prev,                      \* history of the gp_tick before it
    written,                   \* samples stored since gp_tick last read tcr or re-armed
    valid,                     \* samples stored since the last re-arm
    isr,                       \* history of the last handler run
    edge,                      \* per input: last change the handler saw
    elapsed,                   \* per input: true ticks since that change
    ovf,                       \* per input: COUNT overflows since that change
    decoded,                   \* per input: values stored by falling edges
    asserts_ok,                \* per Assert of gp_tick: it never failed
    ticks, bursts, edges, advances

adcVars == <<gp_adc_samples, gp_adc_last_sample_idx, samples_read,
             samples_avail, adc_totals, adc_sample_count>>
hwVars == <<pdca, adc_on>>
pwmVars == <<gp_pwm_input_state, gp_pwm_input_state_begin,
             gp_pwm_input_values>>
pwmHist == <<isr, edge, elapsed, ovf, decoded>>
commsVars == <<comms_adc, comms_pwm, comms_gpin, comms_gpout>>
budget == <<ticks, bursts, edges, advances>>
vars == <<pc, adcVars, hwVars, pwmVars, pwmHist, commsVars, budget, last_gpio,
          flags, irq_on, irq_pending, in_pins, out_pins, COUNT, cycle, prev,
          written, valid, asserts_ok>>

ZeroCh == [c \in Channels |-> 0]
NoCycle ==
    [filled |-> 0, cursor |-> 0, avail |-> 0, written |-> 0,
     content |-> [c \in Channels |-> {}], rearm |-> FALSE,
     consumed |-> {}, seen |-> [c \in Channels |-> {}],
     irq_before |-> TRUE, isr_in_rearm |-> FALSE, steady |-> FALSE]
NoEdge ==
    [kind |-> "none", before |-> "none", t |-> ToBig(0), t0 |-> ToBig(0),
     elapsed |-> ToBig(0), ovf |-> 0]
NoPrev ==
    [done |-> FALSE, avail |-> 0, rearm |-> FALSE, out |-> ZeroCh,
     steady |-> FALSE]
NoIsr == [changed |-> {}, count |-> ToBig(0), ran |-> FALSE]

(* ---- the arithmetic of gp_tick ---- *)

(* variant: the clamp of negative samples left out *)
ClampSample_NoLower(sample) ==
    IF sample >= SAMPLE_MAX THEN SAMPLE_MAX ELSE sample

(* variant: the clamp to +2047 left out *)
ClampSample_NoUpper(sample) ==
    IF sample < 0 THEN 0 ELSE sample

(* gp.c:245-249: clamp of one raw int16_t sample *)
ClampSample(sample) ==
    IF sample < 0 THEN 0
    ELSE IF sample >= SAMPLE_MAX THEN SAMPLE_MAX
    ELSE sample

(* variant: the wrapped distance counted one too many *)
WrappedAvail_PlusOne(read, idx) == (GP_ADC_BUF_SIZE - idx + 1) + read

(* gp.c:206-208: samples available when the write cursor is behind idx *)
WrappedAvail(read, idx) == (GP_ADC_BUF_SIZE - idx - 1) + read

(* gp.c:204-212: number of samples available, a uint16_t *)
SamplesAvail(read, idx) ==
    IF read > idx THEN (read - idx) % U16
    ELSE IF read < idx THEN WrappedAvail(read, idx) % U16
    ELSE 0

(* variants: the health check without its overrun half, without its stall
   half *)
NeedsRearm_NoOverrun(avail) == avail = 0
NeedsRearm_NoStall(avail) == avail > (GP_ADC_BUF_SIZE * 7) \div 8

(* gp.c:214: the health check that leads to the re-arm *)
NeedsRearm(avail) ==
    avail > (GP_ADC_BUF_SIZE * 7) \div 8 \/ avail = 0

(* variant: the samples spread over two accumulators only *)
ChannelOf_TwoWay(idx) == idx % 2

(* variant: the accumulator chosen from the index after the one read *)
ChannelOf_Next(idx) == (idx + 1) % GP_NUM_ADCS

(* gp.c:242, 251, 252: the accumulator a buffer index belongs to *)
ChannelOf(idx) == idx % GP_NUM_ADCS

(* variant: the cursor advanced without the mask *)
NextIdx_NoMask(idx) == idx + 1

(* gp.c:253-254: (idx + 1) & (GP_ADC_BUF_SIZE - 1); the size is a power of
   two, so the mask keeps the low 8 bits *)
NextIdx(idx) == (idx + 1) % GP_ADC_BUF_SIZE

(* gp.c:242-254: one iteration of the drain loop.  a.ok records the Assert of
   gp.c:242; consumed and seen record which indices and raw values were
   read (an index outside the buffer is recorded and read as 0).
   The uint32_t total cannot wrap: at most 65535 samples of at most 32767. *)
DrainStep(buf, a) ==
    LET c == ChannelOf(a.idx)
        raw == IF a.idx \in Slots THEN buf[a.idx] ELSE 0
    IN  [idx |-> NextIdx(a.idx),
         totals |-> [a.totals EXCEPT ![c] = @ + ClampSample(raw)],
         counts |-> [a.counts EXCEPT ![c] = (@ + 1) % U16],
         ok |-> a.ok /\ a.counts[c] <= COUNT_ASSERT_MAX,
         consumed |-> a.consumed \cup {a.idx},
         seen |-> [a.seen EXCEPT ![c] = @ \cup {raw}]]

(* gp.c:239-255: for (; samples_avail; samples_avail--): n runs of the loop
   body in order, the first half of them and then the rest.  The state m
   between the halves is computed (ok is a Boolean) before the second half
   starts, which keeps the depth of the evaluation logarithmic in n. *)
RECURSIVE DrainLoop(_, _, _)
DrainLoop(n, buf, a) ==
    IF n = 0 THEN a
    ELSE IF n = 1 THEN DrainStep(buf, a)
    ELSE LET m == DrainLoop(n \div 2, buf, a)
         IN  IF m.ok \in BOOLEAN THEN DrainLoop(n - (n \div 2), buf, m)
             ELSE m

(* variant: division by the nominal oversampling count, not by the count of
   samples drained *)
Average_FixedCount(total, count) ==
    IF count > 0 THEN (total * 16) \div GP_ADC_OVERSAMPLE_RATE ELSE 0

(* gp.c:259-264: average of one channel, scaled by 16; the uint32_t shift
   cannot wrap for a total of at most 256 samples *)
Average(total, count) ==
    IF count > 0 THEN (total * 16) \div count ELSE 0

(* PDCA ring mode: transfer counter after n more stores; at zero it is
   reloaded from tcrr *)
TcrAfter(p, n) == ((p.tcr - 1 - n) % p.tcrr) + 1

(* the PDCA stores its next n samples to mar, mar + 1, ...; the ring wraps
   to marr, the buffer base, when tcr reaches zero *)
StoredTo(p, n, s) == ((s - p.mar) % GP_ADC_BUF_SIZE) < n

(* variant: pin i driven from bit i + 1 *)
SetPins_OffByOne(pin_values) ==
    LET b(i) == Bit(pin_values, i + 1) * Pow2(i)
    IN  b(0) + b(1) + b(2) + b(3)

(* gp.c:274-282: gp_set_pins drives each output pin from its bit *)
SetPins(pin_values) ==
    LET b(i) == Bit(pin_values, i) * Pow2(i)
    IN  b(0) + b(1) + b(2) + b(3)

(* gp.c:284-290: gp_get_pins collects the level of each input pin *)
GetPins(pins) ==
    LET b(i) == Bit(pins, i) * Pow2(i)
    IN  b(0) + b(1) + b(2) + b(3)

(* variant: the saturation at the upper threshold left out *)
PwmMap_NoSaturate(delta) ==
    IF BigLe(delta, ToBig(T_low)) THEN 0
    ELSE Sub32(delta, ToBig(T_low)).lo

(* variant: the upper threshold compared with > instead of >= *)
PwmMap_HighExclusive(delta) ==
    IF BigLe(delta, ToBig(T_low)) THEN 0
    ELSE IF BigLe(ToBig(T_high + 1), delta) THEN 65535
    ELSE Sub32(delta, ToBig(T_low)).lo

(* gp.c:311-317: three-region mapping of the high time, stored as uint16_t *)
PwmMap(delta) ==
    IF BigLe(delta, ToBig(T_low)) THEN 0
    ELSE IF BigLe(ToBig(T_high), delta) THEN 65535
    ELSE Sub32(delta, ToBig(T_low)).lo

(* variant: a counter that went backwards taken as no time passed *)
PwmDelta_NoWrap(count, begin) ==
    IF BigLe(begin, count) THEN Sub32(count, begin) ELSE ToBig(0)

(* gp.c:306: uint32_t delta = count - gp_pwm_input_state_begin[i] *)
PwmDelta(count, begin) == Sub32(count, begin)

(* variant: the timestamp taken on rising edges only *)
NewBegin_RisingOnly(count, begin, wasHigh) ==
    IF wasHigh THEN begin ELSE count

(* gp.c:320: the timestamp kept for a changed pin *)
NewBegin(count, begin, wasHigh) == count

(* ---- state after gp_init (gp.c:72-169) ---- *)
(* gp_init leaves the global interrupt enable as its caller set it, so
   gp_tick may find it either way. *)
Init ==
    /\ pc = "idle"
    /\ gp_adc_samples = [s \in Slots |-> 0]
    /\ gp_adc_last_sample_idx = 0
    /\ last_gpio = 0
    /\ samples_read = 0
    /\ samples_avail = 0
    /\ adc_totals = ZeroCh
    /\ adc_sample_count = ZeroCh
    /\ flags = TRUE
    /\ gp_pwm_input_state = 0
    /\ gp_pwm_input_state_begin = [i \in Inputs |-> ToBig(0)]
    /\ gp_pwm_input_values = [i \in Inputs |-> 0]
    /\ pdca = [tcr |-> 0, mar |-> 0, tcrr |-> 0, marr |-> 0, ten |-> FALSE]
    /\ adc_on = TRUE
    /\ irq_on \in BOOLEAN
    /\ irq_pending = FALSE
    /\ in_pins = 0
    /\ out_pins = SetPins(0)
    /\ COUNT = ToBig(0)
    /\ comms_adc = ZeroCh
    /\ comms_pwm = [i \in Inputs |-> 0]
    /\ comms_gpin = 0
    /\ comms_gpout = 0
    /\ cycle = NoCycle
    /\ prev = NoPrev
    /\ written = 0
    /\ valid = 0
    /\ isr = NoIsr
    /\ edge = [i \in Inputs |-> NoEdge]
    /\ elapsed = [i \in Inputs |-> ToBig(0)]
    /\ ovf = [i \in Inputs |-> 0]
    /\ decoded = [i \in Inputs |-> {}]
    /\ asserts_ok = [read |-> TRUE, count |-> TRUE, avg |-> TRUE]
    /\ ticks = 0
    /\ bursts = 0
    /\ edges = 0
    /\ advances = 0

(* ---- gp_tick, one action per stretch between preemption points ---- *)

(* variant: gp_tick clears the values once it has passed them on *)
TickPwm_Consume ==
    /\ comms_pwm' = gp_pwm_input_values
    /\ gp_pwm_input_values' = [i \in Inputs |-> 0]
    /\ UNCHANGED <<gp_pwm_input_state, gp_pwm_input_state_begin>>

(* gp.c:184: comms_set_pwm_values(gp_pwm_input_values) reads the decoder's
   values and writes none of its variables *)
TickPwm ==
    /\ comms_pwm' = gp_pwm_input_values
    /\ UNCHANGED pwmVars

(* gp.c:173-190: outputs, input state, PWM values, cleared accumulators *)
TickBegin(curr_gpio) ==
    /\ pc = "idle"
    /\ ticks < MaxTicks
    /\ ticks' = ticks + 1
    /\ comms_gpout' = curr_gpio
    /\ IF curr_gpio # last_gpio
       THEN out_pins' = SetPins(curr_gpio) /\ last_gpio' = curr_gpio
       ELSE UNCHANGED <<out_pins, last_gpio>>
    /\ comms_gpin' = GetPins(in_pins) % U8
    /\ TickPwm
    /\ adc_totals' = ZeroCh
    /\ adc_sample_count' = ZeroCh
    /\ prev' = IF ticks = 0 THEN NoPrev
               ELSE [done |-> TRUE, avail |-> cycle.avail,
                     rearm |-> cycle.rearm, out |-> comms_adc,
                     steady |-> cycle.steady \/ cycle.rearm]
    /\ cycle' = NoCycle
    /\ pc' = "sample"
    /\ UNCHANGED <<gp_adc_samples, gp_adc_last_sample_idx, samples_read,
                   samples_avail, hwVars, pwmHist, comms_adc, flags,
                   irq_on, irq_pending, in_pins, COUNT, written, valid,
                   asserts_ok, bursts, edges, advances>>

(* gp.c:198-220: read tcr once, compute samples_avail, run the health check
   and on failure reset the cursor and stop the ADC.  tcr never exceeds the
   value loaded at gp.c:226, so the uint32_t subtraction cannot wrap. *)
TickSample ==
    /\ pc = "sample"
    /\ LET read == GP_ADC_BUF_SIZE - pdca.tcr
           avail == SamplesAvail(read, gp_adc_last_sample_idx)
       IN  /\ asserts_ok' = [asserts_ok EXCEPT
                  !.read = @ /\ read <= GP_ADC_BUF_SIZE]
           /\ cycle' = [cycle EXCEPT
                  !.filled = read,
                  !.cursor = gp_adc_last_sample_idx,
                  !.avail = avail,
                  !.written = written,
                  !.steady = prev.steady /\ written >= 1
                                 /\ written < (GP_ADC_BUF_SIZE * 7) \div 8,
                  !.content = [c \in Channels |->
                      {gp_adc_samples[s] : s \in {x \in Slots : x % GP_NUM_ADCS = c}}]]
           /\ IF NeedsRearm(avail)
              THEN /\ samples_read' = 0
                   /\ samples_avail' = 0
                   /\ gp_adc_last_sample_idx' = 0
                   /\ adc_on' = FALSE
                   /\ pc' = "irq_save"
              ELSE /\ samples_read' = read
                   /\ samples_avail' = avail
                   /\ pc' = "drain"
                   /\ UNCHANGED <<gp_adc_last_sample_idx, adc_on>>
    /\ written' = 0
    /\ UNCHANGED <<gp_adc_samples, adc_totals, adc_sample_count, pdca,
                   pwmVars, pwmHist, commsVars, budget, last_gpio, flags,
                   irq_on, irq_pending, in_pins, out_pins, COUNT, prev, valid>>

(* variant: the flags saved but interrupts left enabled *)
TickIrqSave_NoDisable ==
    /\ pc = "irq_save"
    /\ flags' = irq_on
    /\ cycle' = [cycle EXCEPT !.irq_before = irq_on]
    /\ pc' = "pdca_dis"
    /\ UNCHANGED <<adcVars, hwVars, pwmVars, pwmHist, commsVars, budget,
                   last_gpio, irq_on, irq_pending, in_pins, out_pins, COUNT,
                   prev, written, valid, asserts_ok>>

(* gp.c:223: irqflags_t flags = cpu_irq_save() *)
TickIrqSave ==
    /\ pc = "irq_save"
    /\ flags' = irq_on
    /\ irq_on' = FALSE
    /\ cycle' = [cycle EXCEPT !.irq_before = irq_on]
    /\ pc' = "pdca_dis"
    /\ UNCHANGED <<adcVars, hwVars, pwmVars, pwmHist, commsVars, budget,
                   last_gpio, irq_pending, in_pins, out_pins, COUNT, prev,
                   written, valid, asserts_ok>>

(* gp.c:224: pdca_channel->cr = AVR32_PDCA_TDIS_MASK *)
TickPdcaDisable ==
    /\ pc = "pdca_dis"
    /\ pdca' = [pdca EXCEPT !.ten = FALSE]
    /\ pc' = "pdca_load"
    /\ UNCHANGED <<adcVars, adc_on, pwmVars, pwmHist, commsVars, budget,
                   last_gpio, flags, irq_on, irq_pending, in_pins, out_pins,
                   COUNT, cycle, prev, written, valid, asserts_ok>>

(* gp.c:225-231: mar, tcr, marr, tcrr from the buffer base and size *)
TickPdcaLoad ==
    /\ pc = "pdca_load"
    /\ pdca' = [pdca EXCEPT !.mar = 0, !.tcr = GP_ADC_BUF_SIZE,
                            !.marr = 0, !.tcrr = GP_ADC_BUF_SIZE]
    /\ pc' = "pdca_en"
    /\ UNCHANGED <<adcVars, adc_on, pwmVars, pwmHist, commsVars, budget,
                   last_gpio, flags, irq_on, irq_pending, in_pins, out_pins,
                   COUNT, cycle, prev, written, valid, asserts_ok>>

(* gp.c:232-233: cr = ECLR | TEN, then the read of isr *)
TickPdcaEnable ==
    /\ pc = "pdca_en"
    /\ pdca' = [pdca EXCEPT !.ten = TRUE]
    /\ cycle' = [cycle EXCEPT !.rearm = TRUE]
    /\ valid' = 0
    /\ written' = 0
    /\ pc' = "irq_restore"
    /\ UNCHANGED <<adcVars, adc_on, pwmVars, pwmHist, commsVars, budget,
                   last_gpio, flags, irq_on, irq_pending, in_pins, out_pins,
                   COUNT, prev, asserts_ok>>

(* gp.c:234: cpu_irq_restore(flags) *)
TickIrqRestore ==
    /\ pc = "irq_restore"
    /\ irq_on' = flags
    /\ pc' = "adc_enable"
    /\ UNCHANGED <<adcVars, hwVars, pwmVars, pwmHist, commsVars, budget,
                   last_gpio, flags, irq_pending, in_pins, out_pins, COUNT,
                   cycle, prev, written, valid, asserts_ok>>

(* gp.c:236: ADCIFA_enable() *)
TickAdcEnable ==
    /\ pc = "adc_enable"
    /\ adc_on' = TRUE
    /\ pc' = "drain"
    /\ UNCHANGED <<adcVars, pdca, pwmVars, pwmHist, commsVars, budget,
                   last_gpio, flags, irq_on, irq_pending, in_pins, out_pins,
                   COUNT, cycle, prev, written, valid, asserts_ok>>

(* gp.c:239-271: the drain loop, the averages with their Assert, and the
   three comms_set_ calls *)
TickDrain ==
    /\ pc = "drain"
    /\ \E r \in {DrainLoop(samples_avail, gp_adc_samples,
                    [idx |-> gp_adc_last_sample_idx, totals |-> adc_totals,
                     counts |-> adc_sample_count, ok |-> TRUE,
                     consumed |-> {}, seen |-> [c \in Channels |-> {}]])} :
       \E avg \in {[c \in Channels |-> Average(r.totals[c], r.counts[c])]} :
           /\ gp_adc_last_sample_idx' = r.idx
           /\ adc_sample_count' = r.counts
           /\ adc_totals' = avg
           /\ asserts_ok' = [asserts_ok EXCEPT
                  !.count = @ /\ r.ok,
                  !.avg = @ /\ \A c \in Channels : avg[c] <= AVG_ASSERT_MAX]
           /\ comms_adc' = [c \in Channels |-> avg[c] % U16]
           /\ cycle' = [cycle EXCEPT !.consumed = r.consumed, !.seen = r.seen]
    /\ samples_avail' = 0
    /\ pc' = "idle"
    /\ UNCHANGED <<gp_adc_samples, samples_read, hwVars, pwmVars, pwmHist,
                   comms_pwm, comms_gpin, comms_gpout, budget, last_gpio,
                   flags, irq_on, irq_pending, in_pins, out_pins, COUNT,
                   prev, written, valid>>

(* ---- the hardware ---- *)

(* the ADC converts and the PDCA stores n samples, channel (slot mod 4) of
   pattern pat, counting tcr down and wrapping in ring mode *)
DmaWrite(n, pat) ==
    /\ adc_on
    /\ pdca.ten
    /\ bursts < MaxBursts
    /\ bursts' = bursts + 1
    /\ gp_adc_samples' = [s \in Slots |->
           IF StoredTo(pdca, n, s) THEN pat[(s % GP_NUM_ADCS) + 1]
           ELSE gp_adc_samples[s]]
    /\ pdca' = [pdca EXCEPT !.tcr = TcrAfter(pdca, n),
                            !.mar = (pdca.mar + n) % GP_ADC_BUF_SIZE]
    /\ written' = written + n
    /\ valid' = IF valid + n > GP_ADC_BUF_SIZE THEN GP_ADC_BUF_SIZE
                ELSE valid + n
    /\ UNCHANGED <<pc, gp_adc_last_sample_idx, samples_read, samples_avail,
                   adc_totals, adc_sample_count, adc_on, pwmVars, pwmHist,
                   commsVars, last_gpio, flags, irq_on, irq_pending, in_pins,
                   out_pins, COUNT, cycle, prev, asserts_ok, ticks, edges,
                   advances>>

(* input pin i changes level and raises the pin-change interrupt flag *)
PinChange(i) ==
    /\ edges < MaxEdges
    /\ edges' = edges + 1
    /\ in_pins' = IF Bit(in_pins, i) = 1 THEN in_pins - Pow2(i)
                  ELSE in_pins + Pow2(i)
    /\ irq_pending' = TRUE
    /\ UNCHANGED <<pc, adcVars, hwVars, pwmVars, pwmHist, commsVars,
                   last_gpio, flags, irq_on, out_pins, COUNT, cycle, prev,
                   written, valid, asserts_ok, ticks, bursts, advances>>

(* dt cycles pass on the free-running 32-bit COUNT register *)
Advance(dt) ==
    /\ advances < MaxAdvances
    /\ advances' = advances + 1
    /\ COUNT' = Wrap32(BigAdd(COUNT, dt))
    /\ elapsed' = [i \in Inputs |-> BigAdd(elapsed[i], dt)]
    /\ ovf' = [i \in Inputs |-> ovf[i] + Carry32(BigAdd(COUNT, dt))]
    /\ UNCHANGED <<pc, adcVars, hwVars, pwmVars, isr, edge, decoded,
                   commsVars, last_gpio, flags, irq_on, irq_pending, in_pins,
                   out_pins, cycle, prev, written, valid, asserts_ok, ticks,
                   bursts, edges>>

(* ---- the interrupt handler ---- *)

(* gp.c:292-327: gp_pwm_check_inputs on pin levels cur and counter count:
   the new <<state, begin, values>> *)
PwmCheckInputs(cur, count, state, begin, values) ==
    LET cur_state == GetPins(cur)
        pins_changed == Xor4(cur_state, state)
    IN  IF pins_changed # 0
        THEN [state |-> cur_state % 16,
              begin |-> [i \in Inputs |->
                  IF Bit(pins_changed, i) = 1
                  THEN NewBegin(count, begin[i], Bit(state, i) = 1)
                  ELSE begin[i]],
              values |-> [i \in Inputs |->
                  IF Bit(pins_changed, i) = 1 /\ Bit(state, i) = 1
                  THEN PwmMap(PwmDelta(count, begin[i]))
                  ELSE values[i]]]
        ELSE [state |-> state, begin |-> begin, values |-> values]

(* gp.c:62-70: the handler clears the interrupt flags and runs
   gp_pwm_check_inputs to completion; it can start wherever interrupts are
   enabled.  isr, edge and decoded record what this run observed. *)
Isr ==
    /\ irq_pending
    /\ irq_on
    /\ irq_pending' = FALSE
    /\ LET r == PwmCheckInputs(in_pins, COUNT, gp_pwm_input_state,
                               gp_pwm_input_state_begin, gp_pwm_input_values)
           seen == {i \in Inputs : Bit(in_pins, i) # Bit(gp_pwm_input_state, i)}
       IN  /\ gp_pwm_input_state' = r.state
           /\ gp_pwm_input_state_begin' = r.begin
           /\ gp_pwm_input_values' = r.values
           /\ isr' = [changed |-> seen, count |-> COUNT, ran |-> TRUE]
           /\ edge' = [i \in Inputs |->
                  IF i \in seen
                  THEN [kind |-> IF Bit(in_pins, i) = 1 THEN "rise" ELSE "fall",
                        before |-> edge[i].kind,
                        t |-> COUNT,
                        t0 |-> edge[i].t,
                        elapsed |-> elapsed[i],
                        ovf |-> ovf[i]]
                  ELSE edge[i]]
           /\ elapsed' = [i \in Inputs |->
                  IF i \in seen THEN ToBig(0) ELSE elapsed[i]]
           /\ ovf' = [i \in Inputs |-> IF i \in seen THEN 0 ELSE ovf[i]]
           /\ decoded' = [i \in Inputs |->
                  IF i \in seen /\ Bit(in_pins, i) = 0
                  THEN decoded[i] \cup {r.values[i]}
                  ELSE decoded[i]]
    /\ cycle' = [cycle EXCEPT !.isr_in_rearm =
                    @ \/ pc \in {"pdca_load", "pdca_en", "irq_restore"}]
    /\ UNCHANGED <<pc, adcVars, hwVars, commsVars, budget, last_gpio, flags,
                   irq_on, in_pins, out_pins, COUNT, prev, written, valid,
                   asserts_ok>>

(* ---- specifications ---- *)
Tick ==
    \/ \E g \in Commands : TickBegin(g)
    \/ TickSample
    \/ TickIrqSave
    \/ TickPdcaDisable
    \/ TickPdcaLoad
    \/ TickPdcaEnable
    \/ TickIrqRestore
    \/ TickAdcEnable
    \/ TickDrain

Dma == \E n \in BurstSizes : \E pat \in Patterns : DmaWrite(n, pat)

Pins == \E i \in Inputs : PinChange(i)

Clock == \E dt \in Deltas : Advance(dt)

(* the acquisition side: gp_tick against the PDCA *)
NextAdc == Tick \/ Dma
SpecAdc == Init /\ [][NextAdc]_vars

(* the decoder side: the handler against the pins and the counter *)
NextPwm == Pins \/ Clock \/ Isr
SpecPwm == Init /\ [][NextPwm]_vars

(* the whole program: the handler preempts gp_tick wherever interrupts are
   enabled.  Joint bounds the hardware events of one run taken together, and
   JointTicks the calls of gp_tick. *)
Joint == bursts + edges + advances < MaxJoint
JointTicks == pc # "idle" \/ ticks < MaxJointTicks
Next ==
    \/ JointTicks /\ Tick
    \/ Isr
    \/ Joint /\ Dma
    \/ Joint /\ Pins
    \/ Joint /\ Clock
Spec == Init /\ [][Next]_vars

(* ======================= properties ======================= *)

(* a call of gp_tick has run to its end; cycle describes it *)
TickDone == pc = "idle" /\ ticks > 0
ChannelSlots(c) == {s \in cycle.consumed : s % GP_NUM_ADCS = c}
Threshold == (GP_ADC_BUF_SIZE * 7) \div 8

(* C1: whatever the buffer holds, every channel average is in [0, 32768]:
   the Assert of gp.c:265 never fails and every value given to
   comms_set_pitot / comms_set_iv / comms_set_range is in that range. *)
C1_AveragesInRange ==
    /\ asserts_ok.avg
    /\ \A c \in Channels : comms_adc[c] >= 0 /\ comms_adc[c] <= AVG_ASSERT_MAX
    /\ TickDone => \A c \in Channels : adc_totals[c] = comms_adc[c]

(* a drain that read both extremes of int16_t and published the largest
   average, 2047 * 16 *)
C1_Witness ==
    /\ TickDone
    /\ \E c \in Channels : -32768 \in cycle.seen[c]
    /\ \E c \in Channels :
           32767 \in cycle.seen[c] /\ comms_adc[c] = SAMPLE_MAX * 16

(* the three-region mapping as the specification states it, on a duration d
   given in halves *)
SpecMap(d) ==
    IF d.hi >= 2 THEN 65535
    ELSE LET n == d.hi * U16 + d.lo
         IN  IF n <= T_low THEN 0
             ELSE IF n >= T_high THEN 65535
             ELSE (n - T_low) % U16

(* C2: once the handler has seen pin i rise at t0 and then, as the next
   change of pin i, fall d counts later, gp_pwm_input_values[i] is 0 for
   d <= T_low, 65535 for d >= T_high and (d - T_low) mod 65536 otherwise.
   d is the count that passed, modulo 2^32. *)
C2_PwmDecode ==
    \A i \in Inputs :
        (edge[i].kind = "fall" /\ edge[i].before = "rise")
            => gp_pwm_input_values[i] = SpecMap(Wrap32(edge[i].elapsed))

(* a falling edge decoded into the middle region *)
C2_Witness ==
    \E i \in Inputs :
        /\ edge[i].kind = "fall"
        /\ edge[i].before = "rise"
        /\ gp_pwm_input_values[i] = T_high - 1 - T_low

(* C3: a gp_tick that computes more than 7/8 of the capacity as available
   re-arms the PDCA (tcr reloaded with the capacity, mar with the base),
   consumes nothing, publishes 0 on all four channels and ends with the read
   cursor at 0. *)
C3_OverrunRearms ==
    /\ (TickDone /\ cycle.avail > Threshold) =>
           /\ cycle.rearm
           /\ cycle.consumed = {}
           /\ comms_adc = ZeroCh
           /\ gp_adc_last_sample_idx = 0
    /\ pc = "irq_restore" =>
           /\ pdca.ten
           /\ pdca.tcr = GP_ADC_BUF_SIZE
           /\ pdca.mar = 0
           /\ pdca.tcrr = GP_ADC_BUF_SIZE
           /\ pdca.marr = 0

(* an overrun of a ring that was armed: 225 samples stored, none drained *)
C3_Witness ==
    /\ TickDone
    /\ cycle.avail > Threshold
    /\ cycle.written > Threshold
    /\ cycle.rearm

(* two calls in a row that both found nothing available, with nothing stored
   between them *)
TwiceIdle ==
    /\ TickDone
    /\ prev.done
    /\ prev.avail = 0
    /\ cycle.avail = 0
    /\ cycle.written = 0

(* C4 as claimed: both calls publish zeros and neither re-arms. *)
C4_Original ==
    TwiceIdle =>
        /\ comms_adc = ZeroCh
        /\ prev.out = ZeroCh
        /\ ~cycle.rearm
        /\ ~prev.rearm

(* C4 amended: two calls of gp_tick with nothing stored between them, both
   finding available == 0, publish the same all-zero outputs, and each of
   them re-arms the PDCA. *)
C4_IdleRearmsTwice ==
    TwiceIdle =>
        /\ comms_adc = ZeroCh
        /\ prev.out = ZeroCh
        /\ cycle.rearm
        /\ prev.rearm

C4_Witness == TwiceIdle /\ cycle.rearm /\ prev.rearm /\ comms_adc = ZeroCh

(* the number of available samples as the specification states it *)
SpecAvail(filled, cursor) ==
    IF filled >= cursor THEN filled - cursor
    ELSE (GP_ADC_BUF_SIZE - cursor) + filled

(* C5: gp_tick computes filled - cursor available samples when
   filled >= cursor and (capacity - cursor) + filled when filled < cursor;
   a cycle that does not re-arm consumes exactly that many slots starting at
   cursor and leaves the cursor at filled mod capacity. *)
C5_Available ==
    TickDone =>
        LET n == SpecAvail(cycle.filled, cycle.cursor)
        IN  /\ cycle.avail = n
            /\ ~cycle.rearm =>
                   /\ cycle.consumed =
                          {(cycle.cursor + k) % GP_ADC_BUF_SIZE : k \in 0 .. (n - 1)}
                   /\ gp_adc_last_sample_idx = cycle.filled % GP_ADC_BUF_SIZE

(* C6 as claimed: after one full buffer cycle (256 samples stored since the
   last drain) with channel c constant at v in 0..2047, gp_tick publishes
   v * 16 for c, having counted 64 samples. *)
C6_Original ==
    (TickDone /\ cycle.written = GP_ADC_BUF_SIZE) =>
        \A c \in Channels :
            \A v \in cycle.content[c] :
                (cycle.content[c] = {v} /\ v >= 0 /\ v <= SAMPLE_MAX) =>
                    /\ comms_adc[c] = v * 16
                    /\ adc_sample_count[c] = GP_ADC_BUF_SIZE \div GP_NUM_ADCS

(* C6 amended: when every slot of channel c that a gp_tick consumes holds
   the same raw value v with 0 <= v <= 2047, and it consumes at least one,
   the tick publishes exactly v * 16 for channel c; it has counted the
   consumed slots of c, never more than 56 (a tick drains at most 224
   samples, never a full buffer cycle). *)
C6_RoundTrip ==
    TickDone =>
        \A c \in Channels :
            \A v \in cycle.seen[c] :
                (cycle.seen[c] = {v} /\ v >= 0 /\ v <= SAMPLE_MAX) =>
                    /\ comms_adc[c] = v * 16
                    /\ adc_sample_count[c] = Cardinality(ChannelSlots(c))
                    /\ adc_sample_count[c] >= 1
                    /\ adc_sample_count[c] <= Threshold \div GP_NUM_ADCS

(* a tick that drained the largest number of samples, 56 of a channel, all
   holding 5 *)
C6_Witness ==
    /\ TickDone
    /\ \E c \in Channels :
           /\ cycle.seen[c] = {5}
           /\ adc_sample_count[c] = Threshold \div GP_NUM_ADCS
           /\ comms_adc[c] = 80

(* C8: a channel of which gp_tick consumed no slot, in a cycle that re-arms
   or in one that drains fewer slots than there are channels, is published
   as exactly 0. *)
C8_NoSampleZero ==
    TickDone =>
        \A c \in Channels : ChannelSlots(c) = {} => comms_adc[c] = 0

(* a drain that reached one channel with a nonzero sample and skipped
   another *)
C8_Witness ==
    /\ TickDone
    /\ \E c \in Channels : ChannelSlots(c) # {} /\ comms_adc[c] > 0
    /\ \E c \in Channels : ChannelSlots(c) = {} /\ comms_adc[c] = 0

(* C9: the slots a drain consumes lie between the read cursor and the write
   cursor the cycle sampled, the latter excluded, and each of them has been
   stored by the PDCA since the last re-arm. *)
C9_NeverPastWriteCursor ==
    /\ \A s \in cycle.consumed : s < valid
    /\ \A s \in cycle.consumed :
           (s - cycle.cursor) % GP_ADC_BUF_SIZE
               < (cycle.filled - cycle.cursor) % GP_ADC_BUF_SIZE

(* a drain across the end of the buffer: the write cursor had wrapped *)
C9_Witness ==
    /\ TickDone
    /\ cycle.filled < cycle.cursor
    /\ (GP_ADC_BUF_SIZE - 1) \in cycle.consumed
    /\ 0 \in cycle.consumed

(* C7: when COUNT overflows once between the rising and the falling edge
   of a pulse on pin i, so that the falling timestamp is below the rising
   one, the falling timestamp minus the rising one, modulo 2^32, is the true
   number of counts that passed, and the stored value is the three-region
   mapping of that number. *)
C7_Wraparound ==
    \A i \in Inputs :
        ( /\ edge[i].kind = "fall"
          /\ edge[i].before = "rise"
          /\ ~BigLe(edge[i].t0, edge[i].t)
          /\ edge[i].ovf = 1 )
        => /\ Sub32(edge[i].t, edge[i].t0) = edge[i].elapsed
           /\ gp_pwm_input_values[i] = SpecMap(edge[i].elapsed)

(* a pulse across the overflow that decodes into the middle region *)
C7_Witness ==
    \E i \in Inputs :
        /\ edge[i].kind = "fall"
        /\ edge[i].before = "rise"
        /\ ~BigLe(edge[i].t0, edge[i].t)
        /\ edge[i].ovf = 1
        /\ gp_pwm_input_values[i] = T_high - 1 - T_low

(* a step of gp_tick, a run of the handler *)
TickStep == pc' # pc
IsrStep == irq_pending /\ ~irq_pending'

(* C10: with the handler preempting gp_tick wherever interrupts are enabled,
   no step of gp_tick writes gp_pwm_input_state, gp_pwm_input_state_begin or
   gp_pwm_input_values, no run of the handler writes the read cursor, the
   sample buffer or the PDCA registers, and every PWM value gp_tick has
   published is the initial 0 or a value stored by a falling-edge decode of
   that channel. *)
C10_SingleWriter ==
    /\ [][TickStep => UNCHANGED pwmVars]_vars
    /\ [][IsrStep => UNCHANGED <<gp_adc_last_sample_idx, gp_adc_samples, pdca>>]_vars
    /\ [](\A i \in Inputs : comms_pwm[i] \in ({0} \cup decoded[i]))

(* the handler ran inside a gp_tick, after the values were passed on: it
   stored a decoded value that this tick did not publish *)
C10_Witness ==
    /\ pc = "drain"
    /\ \E i \in Inputs :
           /\ edge[i].kind = "fall"
           /\ gp_pwm_input_values[i] # 0
           /\ comms_pwm[i] = 0

(* the positions of gp_tick after the transfer disable of gp.c:224 and up to
   the restore of gp.c:234 *)
InRearm == pc \in {"pdca_load", "pdca_en", "irq_restore"}

(* C11: the handler never runs between the transfer disable that starts the
   PDCA re-arm and the end of the sequence (interrupts are off throughout);
   once the sequence is over the interrupt enable is what it was before it
   began; and no other step of gp_tick changes the interrupt enable, so a
   gp_tick that does not re-arm leaves it alone. *)
C11_CriticalSection ==
    /\ [][IsrStep => ~InRearm]_vars
    /\ [](InRearm => ~irq_on)
    /\ [](pc = "adc_enable" => irq_on = cycle.irq_before)
    /\ [][(TickStep /\ pc \notin {"irq_save", "irq_restore"})
              => irq_on' = irq_on]_vars

(* a pin changed while the re-arm had interrupts off: the sequence is over,
   interrupts are on again and the handler is still to run *)
C11_Witness ==
    /\ pc = "adc_enable"
    /\ cycle.rearm
    /\ cycle.irq_before
    /\ irq_on
    /\ irq_pending
    /\ GetPins(in_pins) # gp_pwm_input_state

(* C12: within one gp_tick no channel counts more than 64 samples, so the
   Assert of gp.c:242, evaluated before each sample is added, never fails,
   whatever the PDCA transfer counter holds. *)
C12_CountBounded ==
    /\ asserts_ok.count
    /\ \A c \in Channels : adc_sample_count[c] <= COUNT_ASSERT_MAX

(* the largest drain there is: 224 samples, 56 of each channel *)
C12_Witness ==
    /\ TickDone
    /\ ~cycle.rearm
    /\ cycle.avail = Threshold
    /\ \A c \in Channels : adc_sample_count[c] = Threshold \div GP_NUM_ADCS

(* the sample as the specification clamps it *)
SpecClamp(raw) == IF raw < 0 THEN 0 ELSE IF raw > SAMPLE_MAX THEN SAMPLE_MAX ELSE raw

(* the slots of channel c among the n consecutive ones that start at cursor *)
SpecSlots(cursor, n, c) ==
    {s \in Slots : (s - cursor) % GP_ADC_BUF_SIZE < n /\ s % GP_NUM_ADCS = c}

RECURSIVE SpecSum(_, _)
SpecSum(buf, S) ==
    IF S = {} THEN 0
    ELSE LET s == CHOOSE x \in S : TRUE
         IN  SpecClamp(buf[s]) + SpecSum(buf, S \ {s})

(* C13: a gp_tick that does not re-arm publishes for every channel c with
   n_c > 0 the value floor(16 * S_c / n_c), where the consumed slots are the
   available ones counted from the entry cursor modulo the capacity, n_c is
   the number of them with index mod 4 = c and S_c the sum of their raw
   samples clamped to [0, 2047]. *)
C13_FloorAverage ==
    [][(pc = "drain" /\ pc' = "idle" /\ ~cycle.rearm) =>
          \A c \in Channels :
              LET S == SpecSlots(cycle.cursor, cycle.avail, c)
              IN  S # {} =>
                     comms_adc'[c] =
                         (16 * SpecSum(gp_adc_samples, S)) \div Cardinality(S)]_vars

(* a drain of a channel that held both an in-range and an out-of-range
   sample, so that the average is of neither *)
C13_Witness ==
    /\ TickDone
    /\ ~cycle.rearm
    /\ \E c \in Channels :
           /\ cycle.seen[c] = {5, 32767}
           /\ comms_adc[c] > 5 * 16
           /\ comms_adc[c] < SAMPLE_MAX * 16

(* the pins a run of the handler finds changed *)
ChangedPins == {i \in Inputs : Bit(in_pins, i) # Bit(gp_pwm_input_state, i)}

(* C14: a run of the handler that finds pins changed sets the timestamp of
   every changed channel, rising or falling, to the one value of COUNT read
   for the event; a channel that was low keeps its value; a channel that did
   not change keeps its timestamp and its value. *)
C14_EdgeFrame ==
    [][(IsrStep /\ ChangedPins # {}) =>
          \A i \in Inputs :
              IF i \in ChangedPins
              THEN /\ gp_pwm_input_state_begin'[i] = COUNT
                   /\ Bit(gp_pwm_input_state, i) = 0 =>
                          gp_pwm_input_values'[i] = gp_pwm_input_values[i]
              ELSE /\ gp_pwm_input_state_begin'[i] = gp_pwm_input_state_begin[i]
                   /\ gp_pwm_input_values'[i] = gp_pwm_input_values[i]]_vars

(* one run that saw one pin fall and another rise, both stamped with the
   same nonzero count, a third pin untouched *)
C14_Witness ==
    /\ isr.ran
    /\ ~irq_pending
    /\ isr.count # ToBig(0)
    /\ \E i, j \in isr.changed :
           /\ edge[i].kind = "rise"
           /\ edge[j].kind = "fall"
           /\ gp_pwm_input_state_begin[i] = isr.count
           /\ gp_pwm_input_state_begin[j] = isr.count
    /\ \E k \in Inputs : k \notin isr.changed

(* C15: a run of the handler that reads the pin levels it already knows
   changes none of gp_pwm_input_state, gp_pwm_input_state_begin and
   gp_pwm_input_values; the value of COUNT leaves no trace. *)
C15_NoOpEdge ==
    [][(IsrStep /\ ChangedPins = {}) => UNCHANGED pwmVars]_vars

(* the handler ran on a glitch while a pin was high and time had passed
   since that pin rose: its timestamp is still the old one *)
C15_Witness ==
    /\ isr.ran
    /\ isr.changed = {}
    /\ ~irq_pending
    /\ \E i \in Inputs :
           /\ Bit(gp_pwm_input_state, i) = 1
           /\ gp_pwm_input_state_begin[i] # COUNT

(* C16: whenever the PDCA has stored a full buffer or more (256 samples or
   more) since gp_tick last read the write position, the next gp_tick
   re-arms and consumes nothing. *)
C16_OverrunDetected ==
    (TickDone /\ cycle.written >= GP_ADC_BUF_SIZE) =>
        /\ cycle.rearm
        /\ cycle.consumed = {}

(* C17: after a re-arm, as long as the PDCA stores between 1 and 223 samples
   between every two consecutive calls of gp_tick, no later gp_tick
   re-arms, and each of them consumes samples. *)
C17_NoSpuriousRearm ==
    (TickDone /\ prev.done /\ cycle.steady) =>
        /\ ~cycle.rearm
        /\ cycle.consumed # {}

(* C18: at the end of every gp_tick output pin i is high iff bit i of the
   command read in that tick is set, although gp_set_pins is called only
   when the 8-bit command differs from the one applied last. *)
C18_OutputsFollowCommand ==
    TickDone =>
        \A i \in Outputs : Bit(out_pins, i) = Bit(comms_gpout, i)

(* a tick that read the command it had applied before, one with a bit above
   the four pins, and so did not drive the pins again *)
C18_Witness ==
    /\ TickDone
    /\ ticks >= 3
    /\ comms_gpout = 21
    /\ last_gpio = 21
    /\ out_pins = 5

(* durations to compare a decoded pulse with: the ends of the 32-bit range,
   both thresholds and their neighbours, and a duration whose distance from
   T_low passes 16 bits *)
ProbeDeltas ==
    {ToBig(0), ToBig(T_low), ToBig(T_low + 1), ToBig(T_high - 1),
     ToBig(T_high), ToBig(T_low + U16), Big(U16 - 1, U16 - 1)}

(* C19: a pulse of d counts with T_low < d < T_high is stored as d - T_low
   exactly, a value in 1..65434 that the 16-bit mask has not cut; and the
   stored value never decreases as d grows over the 32-bit range: it is at
   least the mapping of every shorter duration and at most the mapping of
   every longer one. *)
C19_ExactAndMonotone ==
    \A i \in Inputs :
        (edge[i].kind = "fall" /\ edge[i].before = "rise") =>
            LET d == Wrap32(edge[i].elapsed)
                n == d.hi * U16 + d.lo
                v == gp_pwm_input_values[i]
            IN  /\ (d.hi < 2 /\ n > T_low /\ n < T_high) =>
                       /\ v = n - T_low
                       /\ v >= 1
                       /\ v <= T_high - 1 - T_low
                /\ \A p \in ProbeDeltas :
                       /\ BigLe(p, d) => PwmMap(p) <= v
                       /\ BigLe(d, p) => v <= PwmMap(p)

(* a pulse one count longer than T_low, stored as 1 *)
C19_Witness ==
    \E i \in Inputs :
        /\ edge[i].kind = "fall"
        /\ edge[i].before = "rise"
        /\ edge[i].elapsed = ToBig(T_low + 1)
        /\ gp_pwm_input_values[i] = 1

(* C20: the read cursor is always in 0..255, every index the drain loop
   reads is inside gp_adc_samples, the transfer counter is in 0..256 and the
   Assert of gp.c:201 never fails. *)
C20_CursorInBuffer ==
    /\ gp_adc_last_sample_idx \in Slots
    /\ cycle.consumed \subseteq Slots
    /\ pdca.tcr \in 0 .. GP_ADC_BUF_SIZE
    /\ asserts_ok.read

(* a drain that read the last slot of the buffer and left the cursor on it
   or wrapped past it *)
C20_Witness ==
    /\ TickDone
    /\ (GP_ADC_BUF_SIZE - 1) \in cycle.consumed
    /\ gp_adc_last_sample_idx < cycle.cursor

====
